---- MODULE Spec2Model ----
(***************************************************************************)
(* Model of src/utils/__init__.py of kinshuk-h/attendance: the             *)
(* CodeGenerator class (registry of issued codes), get_field, parse_date   *)
(* and the hash_password / verify_password pair.                           *)
(***************************************************************************)
EXTENDS Integers, Sequences, FiniteSets, TLC

\* ------------------------------------------------------------------ bounds
MaxLength == 1      \* largest `length` argument passed to generate
MaxSeed == 2        \* longest list passed as `codes` to the constructor
MaxCalls == 3       \* generate calls that return, per instance
MaxTries == 3       \* invocations of the generation function per call
MaxThreadSeed == 1  \* longest supplied list in the two-thread model
MaxThreadTries == 2 \* invocations per call in the two-thread model
MaxTokens == 3      \* longest date string, in tokens
MaxTail == 1        \* characters of a password after its run of "a"
SaltLen == 1        \* bytes of a salt (bcrypt's own salts are longer)

\* an optional argument: Python's None, or a value
Some(x) == [none |-> FALSE, val |-> x]
NoList == [none |-> TRUE, val |-> <<>>]
NoFunction == [none |-> TRUE, val |-> {}]

\* string.ascii_uppercase + string.digits, cut down to one letter and one digit
Alphabet == {"A", "0"}

Range(s) == {s[i] : i \in 1..Len(s)}

\* all strings over Alphabet of length at most n, as sequences of characters
Codes(n) == UNION {[1..k -> Alphabet] : k \in 0..n}

\* the lists a caller may pass as `codes`: any order, duplicates allowed
SeedLists == UNION {[1..k -> Codes(1)] : k \in 0..MaxSeed}

\* the caller-supplied generation functions, each described by the set of
\* values it can return (it may return them in any order, any number of times)
CustomRanges == (SUBSET Codes(1)) \ {{}}

VARIABLES
    codes_arg,  \* the `codes` argument of the constructor (a list or None)
    gen_fx,     \* self.__generator
    codes,      \* self.__codes, the registry
    pc,         \* "idle" or "calling": whether a generate call is running
    args,       \* the arguments of the running (or last) generate call
    tried,      \* the candidates the generation function returned in that call
    returned,   \* the values generate has returned so far, in order
    \* two callers of one instance, each in its own thread
    serialized, \* whether the callers hold a lock around each generate call
    lock,       \* the thread holding that lock, or "free"
    tpc,        \* per thread: "idle", "invoke", "test" or "append"
    tval,       \* per thread: the local `value`, as a list of zero or one
    ttries,     \* per thread: invocations of the generator in the running call
    tret,       \* per thread: the values its calls have returned
    \* get_field
    request,    \* the request: its form and its query parameters (args)
    field_call, \* the arguments of the last get_field call
    field_out,  \* what that call did: returned a value, returned None, aborted
    \* parse_date
    now,        \* the clock: what datetime.datetime.now() returns
    datestr,    \* the argument of the last parse_date call (a string or None)
    date_out,   \* what that call did: returned a timestamp, or raised
    \* hash_password and verify_password
    bcrypt_long,  \* what the installed bcrypt does with more than 72 bytes
    pw_password,  \* the password last given to hash_password
    pw_stored,    \* what hash_password returned for it
    pw_attempt,   \* the password last given to verify_password
    pw_passed,    \* what the caller passed as hashed_pw: "tuple" or "first"
    pw_verdict    \* what verify_password did: returned a boolean, or raised

genVars == <<codes_arg, gen_fx, codes, pc, args, tried, returned>>
threadVars == <<serialized, lock, tpc, tval, ttries, tret>>

fieldVars == <<request, field_call, field_out>>
dateVars == <<now, datestr, date_out>>
pwVars == <<bcrypt_long, pw_password, pw_stored, pw_attempt, pw_passed, pw_verdict>>

vars == <<codes_arg, gen_fx, codes, pc, args, tried, returned,
          serialized, lock, tpc, tval, ttries, tret,
          request, field_call, field_out,
          now, datestr, date_out,
          bcrypt_long, pw_password, pw_stored, pw_attempt, pw_passed, pw_verdict>>

Threads == {"t1", "t2"}

\* ------------------------------------------------------------ get_field
\* the parameter names and values of the modelled requests; "" is the empty value
Keys == {"x", "y"}
Values == {"", "1", "2"}

\* a MultiDict of parameters: some of the keys, each with a value
Params == UNION {[K -> Values] : K \in SUBSET Keys}

\* the outcomes of get_field
Returned(v) == [outcome |-> "value", value |-> v, status |-> 0, field |-> ""]
ReturnedNone == [outcome |-> "None", value |-> "", status |-> 0, field |-> ""]
Aborted(code, k) == [outcome |-> "abort", value |-> "", status |-> code, field |-> k]
KeyError == [outcome |-> "KeyError", value |-> "", status |-> 0, field |-> ""]
NotCalled == [outcome |-> "pending", value |-> "", status |-> 0, field |-> ""]

\* mutant of the emptiness test: no value counts as empty
FalsyNever(value) == FALSE

\* `not value` for a parameter value
Falsy(value) == value = ""

\* mutant of the guard: an empty value is refused even with allow_null
RefusedAlways(allow_null, value) == Falsy(value)

\* `if not allow_null and not value: raise KeyError()`
Refused(allow_null, value) == ~allow_null /\ Falsy(value)

\* `value = params[key]` followed by the guard: the value, or KeyError
Lookup(params, key, allow_null) ==
    IF key \notin DOMAIN params THEN KeyError
    ELSE IF Refused(allow_null, params[key]) THEN KeyError
    ELSE Returned(params[key])

\* get_field(request, key, allow_null)
get_field(req, key, allow_null) ==
    IF Lookup(req.form, key, allow_null) # KeyError
      THEN Lookup(req.form, key, allow_null)
    ELSE IF Lookup(req.args, key, allow_null) # KeyError
      THEN Lookup(req.args, key, allow_null)
    ELSE IF allow_null THEN ReturnedNone
    ELSE Aborted(400, key)

FieldIdle ==
    /\ request = [form |-> <<>>, args |-> <<>>]
    /\ field_call = [key |-> "x", allow_null |-> FALSE]
    /\ field_out = NotCalled

FieldInit ==
    /\ request \in [form : Params, args : Params]
    /\ field_call = [key |-> "x", allow_null |-> FALSE]
    /\ field_out = NotCalled

\* a handler calls get_field on the request
GetField(key, allow_null) ==
    /\ field_call' = [key |-> key, allow_null |-> allow_null]
    /\ field_out' = get_field(request, key, allow_null)
    /\ UNCHANGED <<request, genVars, threadVars, dateVars, pwVars>>

\* the next request arrives
NewRequest ==
    /\ field_out # NotCalled
    /\ request' \in [form : Params, args : Params]
    /\ field_out' = NotCalled
    /\ UNCHANGED <<field_call, genVars, threadVars, dateVars, pwVars>>

FieldNext ==
    \/ \E key \in Keys, allow_null \in BOOLEAN : GetField(key, allow_null)
    \/ NewRequest

\* ----------------------------------------------------------- parse_date
\* A date string is a sequence of tokens: a well-formed ISO-8601 calendar
\* date, the designator "T", a well-formed ISO-8601 time, or other text.
Dates == {"2021-03-04", "2021-12-31"}
Times == {"00:00:00", "10:30:00"}
Tokens == Dates \cup Times \cup {"T", "junk"}
DateStrings == UNION {[1..k -> Tokens] : k \in 0..MaxTokens}

Timestamp(d, t) == [outcome |-> "datetime", date |-> d, time |-> t, error |-> ""]
Raised(e) == [outcome |-> "raised", date |-> "", time |-> "", error |-> e]
NotParsed == [outcome |-> "pending", date |-> "", time |-> "", error |-> ""]

\* str.split('T'): the pieces of s between the designators
RECURSIVE SplitT(_)
SplitT(s) ==
    IF \A i \in 1..Len(s) : s[i] # "T" THEN <<s>>
    ELSE LET i == CHOOSE k \in 1..Len(s) : s[k] = "T" /\ \A j \in 1..(k - 1) : s[j] # "T"
         IN <<SubSeq(s, 1, i - 1)>> \o SplitT(SubSeq(s, i + 1, Len(s)))

\* isodate.parse_date: a date for a well-formed date string, else ISO8601Error
isodate_parse_date(s) ==
    IF Len(s) = 1 /\ s[1] \in Dates THEN Timestamp(s[1], "") ELSE Raised("ISO8601Error")

\* isodate.parse_time: a time for a well-formed time string, else ISO8601Error
isodate_parse_time(s) ==
    IF Len(s) = 1 /\ s[1] \in Times THEN Timestamp("", s[1]) ELSE Raised("ISO8601Error")

\* isodate.parse_datetime: `date, time = s.split('T')`, a missing or
\* repeated designator being an ISO8601Error, then both halves parsed
isodate_parse_datetime(s) ==
    LET parts == SplitT(s) IN
    IF Len(parts) # 2 THEN Raised("ISO8601Error")
    ELSE IF isodate_parse_date(parts[1]).outcome = "raised" THEN isodate_parse_date(parts[1])
    ELSE IF isodate_parse_time(parts[2]).outcome = "raised" THEN isodate_parse_time(parts[2])
    ELSE Timestamp(isodate_parse_date(parts[1]).date, isodate_parse_time(parts[2]).time)

\* `datetime.time.min()`: datetime.time.min is a time object, not a function,
\* so calling it raises TypeError
time_min_call == Raised("TypeError")

\* the except branch: `datetime.datetime.combine(isodate.parse_date(datestr),
\* datetime.time.min())`, its arguments evaluated left to right
date_only_fallback(s) ==
    IF isodate_parse_date(s).outcome = "raised" THEN isodate_parse_date(s)
    ELSE IF time_min_call.outcome = "raised" THEN time_min_call
    ELSE Timestamp(isodate_parse_date(s).date, time_min_call.time)

\* parse_date(datestr)
parse_date(d, clock) ==
    IF d.none \/ d.val = <<>> THEN Timestamp(clock[1], clock[2])
    ELSE IF isodate_parse_datetime(d.val).outcome = "raised"
      THEN date_only_fallback(d.val)
    ELSE isodate_parse_datetime(d.val)

DateIdle ==
    /\ now = <<"2021-03-04", "00:00:00">>
    /\ datestr = NoList
    /\ date_out = NotParsed

DateInit ==
    /\ now \in Dates \X Times
    /\ datestr = NoList
    /\ date_out = NotParsed

\* a caller parses a string, or None
ParseDate(d) ==
    /\ datestr' = d
    /\ date_out' = parse_date(d, now)
    /\ UNCHANGED <<now, genVars, threadVars, fieldVars, pwVars>>

\* time passes
Tick ==
    /\ now' \in (Dates \X Times) \ {now}
    /\ datestr' = NoList
    /\ date_out' = NotParsed
    /\ UNCHANGED <<genVars, threadVars, fieldVars, pwVars>>

DateNext ==
    \/ \E d \in {Some(x) : x \in DateStrings} \cup {NoList} : ParseDate(d)
    \/ Tick

\* ------------------------------------- hash_password, verify_password
\* A password is a string of code points: a run of "a" (97) followed by a
\* few characters, one of them outside ASCII (233, two bytes in UTF-8).
Chars == {97, 98, 233}
PadLengths == {0, 71, 72}
Passwords == {[i \in 1..n |-> 97] \o t : n \in PadLengths, t \in UNION {[1..k -> Chars] : k \in 0..MaxTail}}

\* bcrypt hashes the first 72 bytes of a password
BcryptMaxBytes == 72

SaltBytes == {46, 47}
Salts == [1..SaltLen -> SaltBytes]

Bytes(b) == [outcome |-> "bytes", bytes |-> b, bool |-> FALSE, error |-> ""]
Bool(b) == [outcome |-> "bool", bytes |-> <<>>, bool |-> b, error |-> ""]
Error(e) == [outcome |-> "raised", bytes |-> <<>>, bool |-> FALSE, error |-> e]
NotVerified == [outcome |-> "pending", bytes |-> <<>>, bool |-> FALSE, error |-> ""]

\* str.encode(): UTF-8, one byte below 128 and two bytes below 2048
RECURSIVE encode(_)
encode(str) ==
    IF str = <<>> THEN <<>>
    ELSE (IF str[1] < 128 THEN <<str[1]>> ELSE <<192 + (str[1] \div 64), 128 + (str[1] % 64)>>)
         \o encode(Tail(str))

\* base64.b64encode: three bytes to four 6-bit symbols, 64 standing for "="
RECURSIVE b64encode(_)
b64encode(b) ==
    IF Len(b) = 0 THEN <<>>
    ELSE IF Len(b) = 1 THEN <<b[1] \div 4, (b[1] % 4) * 16, 64, 64>>
    ELSE IF Len(b) = 2 THEN <<b[1] \div 4, (b[1] % 4) * 16 + (b[2] \div 16), (b[2] % 16) * 4, 64>>
    ELSE <<b[1] \div 4, (b[1] % 4) * 16 + (b[2] \div 16), (b[2] % 16) * 4 + (b[3] \div 64), b[3] % 64>>
         \o b64encode(SubSeq(b, 4, Len(b)))

\* the bytes of a string of whole four-symbol groups
RECURSIVE b64groups(_)
b64groups(s) ==
    IF Len(s) = 0 THEN <<>>
    ELSE (IF s[3] = 64 THEN <<s[1] * 4 + (s[2] \div 16)>>
          ELSE IF s[4] = 64 THEN <<s[1] * 4 + (s[2] \div 16), (s[2] % 16) * 16 + (s[3] \div 4)>>
          ELSE <<s[1] * 4 + (s[2] \div 16), (s[2] % 16) * 16 + (s[3] \div 4), (s[3] % 4) * 64 + s[4]>>)
         \o b64groups(SubSeq(s, 5, Len(s)))

\* base64.b64decode: TypeError for an argument that is no string (a tuple),
\* binascii.Error for a string that is not whole groups
b64decode(arg) ==
    IF arg.kind = "tuple" THEN Error("TypeError")
    ELSE IF Len(arg.str) % 4 # 0 THEN Error("binascii.Error")
    ELSE Bytes(b64groups(arg.str))

\* the digest of bcrypt, as a collision-free function of the salt and of the
\* bytes bcrypt reads
digest(pw, salt) == [i \in 1..Len(pw) |-> (pw[i] + salt[1]) % 256]

\* bcrypt.hashpw(password, salt): the salt (the leading bytes of `salt`, which
\* may be a whole hash) followed by the digest of the first 72 bytes of the
\* password; a bcrypt that refuses longer passwords raises ValueError
bcrypt_hashpw(pw, salt, long) ==
    IF Len(salt) < SaltLen THEN Error("ValueError")
    ELSE IF Len(pw) > BcryptMaxBytes /\ long = "raise" THEN Error("ValueError")
    ELSE LET s == SubSeq(salt, 1, SaltLen)
             read == SubSeq(pw, 1, IF Len(pw) > BcryptMaxBytes THEN BcryptMaxBytes ELSE Len(pw))
         IN Bytes(s \o digest(read, s))

\* bcrypt.checkpw(password, hashed): hash again with the salt of `hashed`, compare
bcrypt_checkpw(pw, hashed, long) ==
    LET ret == bcrypt_hashpw(pw, hashed, long) IN
    IF ret.outcome = "raised" THEN ret ELSE Bool(ret.bytes = hashed)

\* what hash_password returns: the pair (encoded hash, encoded salt)
Pair(a, b) == [outcome |-> "tuple", first |-> a, second |-> b, error |-> ""]
HashFailed(e) == [outcome |-> "raised", first |-> <<>>, second |-> <<>>, error |-> e]
NotHashed == [outcome |-> "pending", first |-> <<>>, second |-> <<>>, error |-> ""]

\* hash_password(password), with the salt bcrypt.gensalt() drew
hash_password(password, salt, long) ==
    LET hashed_pw == bcrypt_hashpw(encode(password), salt, long) IN
    IF hashed_pw.outcome = "raised" THEN HashFailed(hashed_pw.error)
    ELSE Pair(b64encode(hashed_pw.bytes), b64encode(salt))

\* mutant of verify_password: the stored string is compared without decoding
verify_without_decode(password, hashed_pw, long) ==
    IF hashed_pw.kind = "tuple" THEN Error("TypeError")
    ELSE bcrypt_checkpw(encode(password), hashed_pw.str, long)

\* verify_password(password, hashed_pw)
verify_password(password, hashed_pw, long) ==
    LET password_hash == b64decode(hashed_pw) IN
    IF password_hash.outcome = "raised" THEN password_hash
    ELSE bcrypt_checkpw(encode(password), password_hash.bytes, long)

\* the argument a caller passes as hashed_pw: the whole result of
\* hash_password, or its first element
HashedArgument(how, stored) ==
    IF how = "tuple" THEN [kind |-> "tuple", str |-> <<>>]
    ELSE [kind |-> "str", str |-> stored.first]

PwIdle ==
    /\ bcrypt_long = "truncate"
    /\ pw_password = <<>>
    /\ pw_stored = NotHashed
    /\ pw_attempt = <<>>
    /\ pw_passed = "first"
    /\ pw_verdict = NotVerified

\* either behaviour of bcrypt may be the installed one
PwInit ==
    /\ bcrypt_long \in {"truncate", "raise"}
    /\ pw_password = <<>>
    /\ pw_stored = NotHashed
    /\ pw_attempt = <<>>
    /\ pw_passed = "first"
    /\ pw_verdict = NotVerified

\* a password is hashed and the result stored
HashPassword(p) ==
    /\ pw_stored = NotHashed
    /\ pw_password' = p
    /\ \E salt \in Salts : pw_stored' = hash_password(p, salt, bcrypt_long)
    /\ pw_attempt' = <<>>
    /\ pw_passed' = "first"
    /\ pw_verdict' = NotVerified
    /\ UNCHANGED <<bcrypt_long, genVars, threadVars, fieldVars, dateVars>>

\* a password is verified against the stored result
VerifyPassword(p, how) ==
    /\ pw_stored.outcome = "tuple"
    /\ pw_verdict = NotVerified
    /\ pw_attempt' = p
    /\ pw_passed' = how
    /\ pw_verdict' = verify_password(p, HashedArgument(how, pw_stored), bcrypt_long)
    /\ UNCHANGED <<bcrypt_long, pw_password, pw_stored, genVars, threadVars, fieldVars, dateVars>>

\* the stored result and the verdict are dropped
Forget ==
    /\ pw_stored # NotHashed
    /\ pw_password' = <<>>
    /\ pw_stored' = NotHashed
    /\ pw_attempt' = <<>>
    /\ pw_passed' = "first"
    /\ pw_verdict' = NotVerified
    /\ UNCHANGED <<bcrypt_long, genVars, threadVars, fieldVars, dateVars>>

PwNext ==
    \/ \E p \in Passwords : HashPassword(p)
    \/ \E p \in Passwords, how \in {"tuple", "first"} : VerifyPassword(p, how)
    \/ Forget

\* the variables of the parts a specification leaves alone
NotGenerator == FieldIdle /\ DateIdle /\ PwIdle

\* ------------------------------------------------------- CodeGenerator
\* __default_generator(length): `length` characters drawn from the alphabet
default_generator(length) == [1..length -> Alphabet]

\* `codes or []`: None and the empty list both give a new empty list
init_codes(c) == IF c.none \/ c.val = <<>> THEN <<>> ELSE c.val

\* `gen_fx or self.__default_generator`
init_generator(g) == IF g.none THEN [kind |-> "default", range |-> {}] ELSE [kind |-> "custom", range |-> g.val]

\* the values self.__generator(*args) can return
GenOutputs(g, a) == IF g.kind = "default" THEN default_generator(a) ELSE g.range

\* mutants of the membership test: dropped, and against the last entry only
FreshAlways(value, registry) == TRUE
FreshLastOnly(value, registry) == registry = <<>> \/ value # registry[Len(registry)]

\* `value not in self.__codes`
Fresh(value, registry) == value \notin Range(registry)

\* mutant of the append: the value is inserted at the front
RegistryPrepend(registry, value) == <<value>> \o registry

\* mutant of the forwarding: the generator is called with a fixed length
DroppedArgs(a) == MaxLength

\* `self.__generator(*args, **kwargs)`: the arguments reach the generator as given
ForwardedArgs(a) == a

\* `self.__codes.append(value)`
RegistryAfter(registry, value) == Append(registry, value)

\* the collection supplied at construction, as a sequence
seed == IF codes_arg.none THEN <<>> ELSE codes_arg.val

GenInit ==
    /\ codes_arg \in {Some(c) : c \in SeedLists} \cup {NoList}
    /\ \E g \in {Some(r) : r \in CustomRanges} \cup {NoFunction} : gen_fx = init_generator(g)
    /\ codes = init_codes(codes_arg)
    /\ pc = "idle"
    /\ tried = <<>>
    /\ returned = <<>>

\* the threads of the interleaved model, before any call
ThreadsIdle ==
    /\ lock = "free"
    /\ tpc = [t \in Threads |-> "idle"]
    /\ tval = [t \in Threads |-> <<>>]
    /\ ttries = [t \in Threads |-> 0]
    /\ tret = [t \in Threads |-> <<>>]

\* a caller enters generate(length)
Call(a) ==
    /\ pc = "idle"
    /\ Len(returned) < MaxCalls
    /\ pc' = "calling"
    /\ args' = a
    /\ tried' = <<>>
    /\ UNCHANGED <<codes_arg, gen_fx, codes, returned>>
    /\ UNCHANGED <<threadVars, fieldVars, dateVars, pwVars>>

\* one pass of the `while True` loop: invoke the generator, test, append, break
Iterate ==
    /\ pc = "calling"
    /\ Len(tried) < MaxTries
    /\ \E value \in GenOutputs(gen_fx, ForwardedArgs(args)) :
        /\ tried' = Append(tried, [args |-> ForwardedArgs(args), value |-> value])
        /\ IF Fresh(value, codes)
             THEN /\ codes' = RegistryAfter(codes, value)
                  /\ returned' = Append(returned, value)
                  /\ pc' = "idle"
             ELSE UNCHANGED <<codes, returned, pc>>
    /\ UNCHANGED <<codes_arg, gen_fx, args>>
    /\ UNCHANGED <<threadVars, fieldVars, dateVars, pwVars>>

GenNext ==
    \/ \E a \in 0..MaxLength : Call(a)
    \/ Iterate

Init ==
    /\ GenInit
    /\ args = 0
    /\ serialized = TRUE
    /\ ThreadsIdle
    /\ NotGenerator

Spec == Init /\ [][GenNext]_vars

\* ------------------------------- CodeGenerator called from two threads
\* The statements of generate as separate steps: the interpreter may switch
\* threads between the call of the generator, the membership test and the
\* append.
InCall == {t \in Threads : tpc[t] # "idle"}

\* thread t enters generate(); a serializing caller takes the lock first
T_Call(t) ==
    /\ tpc[t] = "idle"
    /\ Len(returned) + Cardinality(InCall) < MaxCalls
    /\ serialized => lock = "free"
    /\ lock' = IF serialized THEN t ELSE lock
    /\ tpc' = [tpc EXCEPT ![t] = "invoke"]
    /\ ttries' = [ttries EXCEPT ![t] = 0]
    /\ UNCHANGED <<fieldVars, dateVars, pwVars, genVars, serialized, tval, tret>>

\* `value = self.__generator(*args, **kwargs)`
T_Invoke(t) ==
    /\ tpc[t] = "invoke"
    /\ ttries[t] < MaxThreadTries
    /\ \E value \in GenOutputs(gen_fx, ForwardedArgs(args)) :
        tval' = [tval EXCEPT ![t] = <<value>>]
    /\ ttries' = [ttries EXCEPT ![t] = @ + 1]
    /\ tpc' = [tpc EXCEPT ![t] = "test"]
    /\ UNCHANGED <<fieldVars, dateVars, pwVars, genVars, serialized, lock, tret>>

\* `if value not in self.__codes:`
T_Test(t) ==
    /\ tpc[t] = "test"
    /\ tpc' = [tpc EXCEPT ![t] = IF Fresh(tval[t][1], codes) THEN "append" ELSE "invoke"]
    /\ UNCHANGED <<fieldVars, dateVars, pwVars, genVars, serialized, lock, tval, ttries, tret>>

\* `self.__codes.append(value); break` and `return value`; a serializing
\* caller releases the lock once the call has returned
T_Append(t) ==
    /\ tpc[t] = "append"
    /\ codes' = RegistryAfter(codes, tval[t][1])
    /\ returned' = Append(returned, tval[t][1])
    /\ tret' = [tret EXCEPT ![t] = Append(@, tval[t][1])]
    /\ tpc' = [tpc EXCEPT ![t] = "idle"]
    /\ lock' = IF serialized THEN "free" ELSE lock
    /\ UNCHANGED <<fieldVars, dateVars, pwVars, codes_arg, gen_fx, pc, args, tried, serialized, tval, ttries>>

\* both threads call generate with the same arguments
ThreadInit ==
    /\ GenInit
    /\ Len(seed) <= MaxThreadSeed
    /\ args \in 0..MaxLength
    /\ serialized \in BOOLEAN
    /\ ThreadsIdle
    /\ NotGenerator

ThreadNext ==
    \E t \in Threads :
        \/ T_Call(t)
        \/ T_Invoke(t)
        \/ T_Test(t)
        \/ T_Append(t)

SpecThreads == ThreadInit /\ [][ThreadNext]_vars

GenIdle ==
    /\ codes_arg = NoList
    /\ gen_fx = init_generator(NoFunction)
    /\ codes = <<>>
    /\ pc = "idle"
    /\ args = 0
    /\ tried = <<>>
    /\ returned = <<>>
    /\ serialized = TRUE
    /\ ThreadsIdle

FieldSpecInit == FieldInit /\ GenIdle /\ DateIdle /\ PwIdle

SpecField == FieldSpecInit /\ [][FieldNext]_vars

DateSpecInit == DateInit /\ GenIdle /\ FieldIdle /\ PwIdle

SpecDate == DateSpecInit /\ [][DateNext]_vars

PwSpecInit == PwInit /\ GenIdle /\ FieldIdle /\ DateIdle

SpecPassword == PwSpecInit /\ [][PwNext]_vars

\* ------------------------------------------------- CodeGenerator: claims
NoDuplicates(s) == \A i, j \in 1..Len(s) : s[i] = s[j] => i = j

\* the registry as it was before the last append
RegistryBefore == SubSeq(codes, 1, Len(codes) - 1)

\* C1: every value generate returns differs from every value it returned
\* before and from every value of the collection supplied at construction.
C1_ReturnedDistinct ==
    \A i \in 1..Len(returned) :
        /\ returned[i] \notin Range(seed)
        /\ \A j \in 1..(i - 1) : returned[j] # returned[i]

\* C1 witness: two calls have returned on a seeded instance, and the last call
\* skipped a candidate that was in the supplied collection.
C1_Witness ==
    /\ pc = "idle"
    /\ Len(returned) >= 2
    /\ \E i \in 1..(Len(tried) - 1) : tried[i].value \in Range(seed)

\* C2 as stated: the registry never contains a duplicate entry, whatever the
\* collection supplied at construction.
C2_NoDuplicatesEver == NoDuplicates(codes)

\* C2 amended: the registry starts as the supplied list, and two equal
\* entries of the registry both lie in that supplied prefix: generate never
\* adds a duplicate, so a registry created empty or from a duplicate-free
\* list contains no duplicate at any time.
C2_DuplicatesOnlyFromSeed ==
    /\ Len(codes) >= Len(seed)
    /\ SubSeq(codes, 1, Len(seed)) = seed
    /\ \A i, j \in 1..Len(codes) : (i < j /\ codes[i] = codes[j]) => j <= Len(seed)
    /\ NoDuplicates(seed) => NoDuplicates(codes)

\* C2 witness: a duplicate-free seeded registry that two calls have extended.
C2_Witness ==
    /\ Len(seed) >= 1
    /\ NoDuplicates(seed)
    /\ Len(returned) >= 2

\* C3: a generate call that returns leaves the registry equal to the registry
\* before it with the returned value appended; a pass of the loop that rejects
\* its candidate, and the entry into a call, leave the registry unchanged.
C3_AppendsExactlyOne ==
    [][ /\ (pc = "calling" /\ pc' = "idle") =>
             /\ Len(returned') = Len(returned) + 1
             /\ codes' = Append(codes, returned'[Len(returned')])
        /\ ~(pc = "calling" /\ pc' = "idle") =>
             /\ codes' = codes
             /\ returned' = returned ]_vars

\* C3 witness: a call has returned after rejecting a candidate, and the
\* registry holds the supplied entries followed by the returned values.
C3_Witness ==
    /\ pc = "idle"
    /\ Len(tried) >= 2
    /\ Len(seed) >= 1
    /\ codes = seed \o returned

\* the generation function can only return values already in the registry
Exhausted == GenOutputs(gen_fx, ForwardedArgs(args)) \subseteq Range(codes)

\* a generation function that always returns the same constant, fresh instance
ConstantOnFresh == gen_fx.kind = "custom" /\ Cardinality(gen_fx.range) = 1 /\ seed = <<>>

\* C4: while every value the generation function can produce is in the
\* registry, a running generate call neither returns nor changes the
\* registry; with a constant generation function on a fresh instance the first
\* call returns the constant on its first pass and no second call returns.
C4_ExhaustedNeverReturns ==
    /\ [][ (pc = "calling" /\ Exhausted) =>
             (pc' = "calling" /\ codes' = codes /\ returned' = returned) ]_vars
    /\ [][ (ConstantOnFresh /\ pc = "calling" /\ returned = <<>>) =>
             (pc' = "idle" /\ returned' \in [1..1 -> gen_fx.range]) ]_vars
    /\ [](ConstantOnFresh => Len(returned) <= 1)

\* C4 witness: the constant function on a fresh instance has returned once,
\* and the second call has used up its passes without returning.
C4_Witness ==
    /\ ConstantOnFresh
    /\ Len(returned) = 1
    /\ pc = "calling"
    /\ Len(tried) = MaxTries

\* C9: a generate call passes the same arguments to every invocation, rejects
\* exactly the candidates that are in the registry, and returns the first
\* candidate that is not, after as many invocations as that candidate's
\* position in the output sequence.
C9_FirstFreshCandidate ==
    /\ \A i \in 1..Len(tried) : tried[i].args = args
    /\ pc = "calling" => \A i \in 1..Len(tried) : tried[i].value \in Range(codes)
    /\ (pc = "idle" /\ tried # <<>>) =>
          /\ returned # <<>>
          /\ returned[Len(returned)] = tried[Len(tried)].value
          /\ tried[Len(tried)].value \notin Range(RegistryBefore)
          /\ \A i \in 1..(Len(tried) - 1) : tried[i].value \in Range(RegistryBefore)

\* C9 witness: a call with a nonzero length returned its third candidate.
C9_Witness ==
    /\ pc = "idle"
    /\ Len(tried) = 3
    /\ args >= 1

\* both threads returned the value v and the registry holds it twice
BothReturned(v) ==
    /\ \A t \in Threads : v \in Range(tret[t])
    /\ \E i, j \in (Len(seed) + 1)..Len(codes) : i # j /\ codes[i] = v /\ codes[j] = v

\* C10: when the callers serialize their generate calls, the calls of the
\* two threads never return the same value and never put a value in the
\* registry twice; without the lock such a state is reachable (C10_Witness).
C10_SerializedNoRace ==
    serialized =>
        /\ \A v \in Range(returned) : ~BothReturned(v)
        /\ NoDuplicates(returned)
        /\ \A i, j \in 1..Len(codes) : (i < j /\ codes[i] = codes[j]) => j <= Len(seed)
        /\ Cardinality(InCall) <= 1

\* C10 witness: without the lock both threads passed the membership test for
\* the same candidate, both returned it, and the registry holds it twice.
C10_Witness ==
    /\ ~serialized
    /\ \E v \in Range(returned) : BothReturned(v)

\* ----------------------------------------------------- get_field: claims
HasValue(params, key) == key \in DOMAIN params /\ params[key] # ""

\* C5: with allow_null=False get_field returns the non-empty form value of the
\* key when there is one, else the non-empty query value when there is one,
\* else aborts with 400; it never returns an empty value or None.
C5_RequiredField ==
    (field_out # NotCalled /\ ~field_call.allow_null) =>
        LET k == field_call.key IN
        /\ HasValue(request.form, k) => field_out = Returned(request.form[k])
        /\ (~HasValue(request.form, k) /\ HasValue(request.args, k))
              => field_out = Returned(request.args[k])
        /\ (~HasValue(request.form, k) /\ ~HasValue(request.args, k))
              => (field_out.outcome = "abort" /\ field_out.status = 400)
        /\ field_out.outcome \in {"value", "abort"}
        /\ field_out.outcome = "value" => field_out.value # ""

\* C5 witness: the form holds the key with an empty value and the call fell
\* back to the non-empty query value.
C5_Witness ==
    /\ field_out.outcome = "value"
    /\ ~field_call.allow_null
    /\ field_call.key \in DOMAIN request.form
    /\ request.form[field_call.key] = ""
    /\ field_out.value # ""

IsDateTimeString(s) == Len(s) = 3 /\ s[1] \in Dates /\ s[2] = "T" /\ s[3] \in Times
IsDateOnlyString(s) == Len(s) = 1 /\ s[1] \in Dates

\* C7: parse_date returns the timestamp of a date-time string, falls back to
\* the date-only parse for a date-only string and returns a timestamp of that
\* date, returns the current timestamp for empty or absent input, and raises
\* a parsing error only for input that neither parse accepts.
C7_ParseDateContract ==
    date_out # NotParsed =>
        /\ (datestr.none \/ datestr.val = <<>>) => date_out = Timestamp(now[1], now[2])
        /\ (~datestr.none /\ IsDateTimeString(datestr.val))
              => date_out = Timestamp(datestr.val[1], datestr.val[3])
        /\ (~datestr.none /\ IsDateOnlyString(datestr.val))
              => (date_out.outcome = "datetime" /\ date_out.date = datestr.val[1])
        /\ date_out.outcome = "raised" =>
              /\ date_out.error = "ISO8601Error"
              /\ ~IsDateTimeString(datestr.val)
              /\ ~IsDateOnlyString(datestr.val)

\* ----------------------------- hash_password, verify_password: claims
ByteLength(password) == Len(encode(password))

\* C8 as stated: verify_password(p2, hash_password(p)) returns true when
\* p2 = p and false when p2 # p, for any two password strings.
C8_RoundTripAsStated ==
    pw_verdict # NotVerified => pw_verdict = Bool(pw_attempt = pw_password)

\* C8 amended: given the first element of the pair hash_password(p)
\* returned, verify_password returns true for p and false for every other
\* password, for passwords of at most 72 bytes in UTF-8.
C8_RoundTripFirstElement ==
    ( /\ pw_verdict # NotVerified
      /\ pw_passed = "first"
      /\ ByteLength(pw_password) <= BcryptMaxBytes
      /\ ByteLength(pw_attempt) <= BcryptMaxBytes )
    => pw_verdict = Bool(pw_attempt = pw_password)

\* C8 witness: a password of exactly 72 bytes was hashed and then accepted,
\* the first element of the pair being passed.
C8_Witness ==
    /\ pw_passed = "first"
    /\ pw_verdict = Bool(TRUE)
    /\ ByteLength(pw_password) = BcryptMaxBytes

====
